---- MODULE Spec2Model ----
(***************************************************************************)
(* DarkVault: the vault ledger contract (contracts/DarkVault.sol) together *)
(* with the part of the encrypted-value access layer it calls              *)
(* (FHE.fromExternal, FHE.allowThis, FHE.allow, user decryption).          *)
(*                                                                         *)
(* One action per external mutating function of the contract; each action  *)
(* is one transaction: it either commits all its writes or reverts and     *)
(* leaves the storage, the grants and the event log untouched.  The view   *)
(* functions are operators over the state.                                 *)
(***************************************************************************)
EXTENDS Integers, Sequences, FiniteSets, TLC

(***************************************************************************)
(* Bounds of the model.                                                    *)
(***************************************************************************)
\* number of committed (successful) transactions explored in one run
MaxTx == 4

\* number of transactions submitted together before any of them is executed
MaxPool == 4
\* committed transactions in the runs that try many calls in every state
MaxLedger == 3

(***************************************************************************)
(* Identities, keys and strings the transactions are drawn from.           *)
(***************************************************************************)
\* externally owned accounts that send transactions (msg.sender)
Owners == {"A", "B"}

\* address(this) of the deployed DarkVault, and some other contract
This == "DarkVault"
OtherContract == "OtherContract"

Identities == Owners \cup {This}

\* clear vault keys (random EVM addresses generated by the client)
Keys == {"K1", "K2"}

\* strings submitted to storeSecret, each a sequence of characters: the empty
\* string, "x" and "dv1:iv1:payload1"
Strings ==
    { <<>>, <<"x">>,
      <<"d", "v", "1", ":", "i", "v", "1", ":",
        "p", "a", "y", "l", "o", "a", "d", "1">> }

\* the zero handle: the value of an eaddress that was never written
ZeroHandle == 0

(***************************************************************************)
(* Encrypted inputs, as produced off-chain by                              *)
(*   fhevm.createEncryptedInput(contract, user).addAddress(key).encrypt()  *)
(* The handle identifies the ciphertext; the input proof attests the       *)
(* handle for one (contract, user) pair.                                   *)
(***************************************************************************)
ContractIx(c) == IF c = This THEN 0 ELSE 1
OwnerIx(o) == IF o = "A" THEN 0 ELSE 1
KeyIx(k) == IF k = "K1" THEN 0 ELSE 1

InputHandle(contract, user, key) ==
    1 + 4 * ContractIx(contract) + 2 * OwnerIx(user) + KeyIx(key)

createEncryptedInput(contract, user, key) ==
    LET h == InputHandle(contract, user, key)
    IN  [ handle     |-> h,
          inputProof |-> [contract |-> contract, user |-> user, handle |-> h] ]

\* the clear value an input handle encrypts
ClearValue(h) == IF (h - 1) % 2 = 0 THEN "K1" ELSE "K2"

NoProof == [contract |-> "", user |-> "", handle |-> ZeroHandle]

\* the (handle, proof) pairs a caller may put in a transaction: every input
\* encrypted for this contract and any of the owners (so a caller can replay
\* an input made for somebody else), an input encrypted for another
\* contract, and a handle paired with the proof of a different handle
GenuineInputs ==
    { createEncryptedInput(This, u, k) : u \in Owners, k \in Keys }

ForeignInput == createEncryptedInput(OtherContract, "A", "K1")

MismatchedInput ==
    [ handle     |-> createEncryptedInput(This, "A", "K1").handle,
      inputProof |-> createEncryptedInput(This, "A", "K2").inputProof ]

ExternalInputs == GenuineInputs \cup {ForeignInput, MismatchedInput}

(***************************************************************************)
(* State.                                                                  *)
(***************************************************************************)
VARIABLES
    vaults,     \* mapping(address => Vault) private vaults
    acl,        \* persistent grants of the access layer: <<handle, identity>>
    events,     \* the event log of the contract, oldest first
    lastCall,   \* the last transaction sent and its outcome
    txs,        \* history: the committed transactions, oldest first
    cipher,     \* one run of the client cipher: its inputs and results
    client,     \* per owner, what the client encrypted for each stored secret
    pool,       \* transactions submitted together, in submission order
    receipts,   \* the outcome of each executed transaction of the pool
    reading,    \* the last call of a view function and its answer
    ui          \* the VaultApp component: its state and its runs in flight

ledgerVars == <<vaults, acl, events, lastCall, txs>>

poolVars == <<pool, receipts>>

\* the state kept outside the ledger
clientVars == <<cipher, client, pool, receipts, reading, ui>>

vars ==
    <<vaults, acl, events, lastCall, txs, cipher, client, pool, receipts,
      reading, ui>>

\* the default value of a Vault storage slot
EmptyVault ==
    [encryptedKey |-> ZeroHandle, initialized |-> FALSE, ciphertexts |-> <<>>]

NoCall ==
    [ op |-> "none", sender |-> "none", handle |-> ZeroHandle,
      inputProof |-> NoProof, ciphertext |-> <<>>, status |-> "none" ]

\* the answer to a call of a view function
Answer(fn, owner, index, ok, value) ==
    [fn |-> fn, owner |-> owner, index |-> index, ok |-> ok, value |-> value]

\* no view function called yet
NoRead == Answer("none", "none", 0, TRUE, "none")

\* const { address } = useAccount(): undefined while no wallet is connected
NoAccount == "none"

\* useState<string | null>(null): the vault key is null
NoKey == <<>>

\* no createVault / decryptVaultKey of the component in flight
NoCreate == [address |-> NoAccount, generatedKey |-> NoKey]
NoDecrypt == [address |-> NoAccount, encryptedKey |-> ZeroHandle]

\* the component after its first render, with no wallet connected
InitUi ==
    [ address |-> NoAccount, hasVault |-> FALSE, vaultKey |-> NoKey,
      ciphertexts |-> <<>>, decryptedSecrets |-> <<>>,
      isFetching |-> FALSE, isCreating |-> FALSE, isDecrypting |-> FALSE,
      isStoring |-> FALSE,
      addressEffect |-> FALSE, decryptEffect |-> FALSE,
      syncs |-> <<>>, creating |-> NoCreate, decrypting |-> NoDecrypt,
      storing |-> NoAccount, runs |-> <<>> ]

\* no cipher run yet
NoCipher ==
    [ phase |-> "idle", address |-> <<>>, plaintext |-> <<>>, iv |-> <<>>,
      payload |-> <<>>, opener |-> <<>>,
      result |-> [ok |-> FALSE, value |-> "none"] ]

Init ==
    /\ vaults = [o \in Owners |-> EmptyVault]
    /\ acl = {}
    /\ events = <<>>
    /\ lastCall = NoCall
    /\ txs = <<>>
    /\ cipher = NoCipher
    /\ client = [o \in Owners |-> <<>>]
    /\ pool = <<>>
    /\ receipts = <<>>
    /\ reading = NoRead
    /\ ui = InitUi

(***************************************************************************)
(* Access layer.                                                           *)
(***************************************************************************)
\* a verification that does not look at the user the input was made for
InputVerified_anyUser(encryptedKey, inputProof, sender) ==
    /\ inputProof.handle = encryptedKey
    /\ inputProof.contract = This

\* FHE.fromExternal(encryptedKey, inputProof): the proof must attest this
\* handle for this contract and for the transaction's sender
InputVerified(encryptedKey, inputProof, sender) ==
    /\ inputProof.handle = encryptedKey
    /\ inputProof.contract = This
    /\ inputProof.user = sender

\* a conversion that returns the empty handle
fromExternal_empty(encryptedKey, inputProof) == ZeroHandle

fromExternal(encryptedKey, inputProof) == encryptedKey

\* FHE.allowThis(h) and FHE.allow(h, account)
allowThis(grants, h) == grants \cup {<<h, This>>}
allow(grants, h, account) == grants \cup {<<h, account>>}

isAllowed(h, account) == <<h, account>> \in acl

\* identities holding a grant on handle h
Grantees(h) == { id \in Identities : isAllowed(h, id) }

\* fhevm.userDecryptEaddress(handle, contractAddress, signer)
userDecrypt(h, contract, requester) ==
    IF isAllowed(h, requester) /\ isAllowed(h, contract)
    THEN [ok |-> TRUE, value |-> ClearValue(h)]
    ELSE [ok |-> FALSE, value |-> "NotAllowed"]

(***************************************************************************)
(* Transactions.                                                           *)
(***************************************************************************)
Call(op, sender, h, proof, ct, status) ==
    [ op |-> op, sender |-> sender, handle |-> h, inputProof |-> proof,
      ciphertext |-> ct, status |-> status ]

\* a notification that does not carry the caller
Event_anonymous(name, owner, index) ==
    [name |-> name, owner |-> "none", index |-> index]

Event(name, owner, index) == [name |-> name, owner |-> owner, index |-> index]

\* a revert that reports the failure in the event log instead of undoing it
Revert_emitsFailure(call) ==
    /\ lastCall' = call
    /\ events' = Append(events, Event("Failed", call.sender, 0))
    /\ UNCHANGED <<vaults, acl>>

\* revert X(): the transaction leaves no storage write, no grant, no event
Revert(call) ==
    /\ lastCall' = call
    /\ UNCHANGED <<vaults, acl, events>>

\* a create guard that looks at the secrets instead of the flag
vaultExists_bySecrets(sender) == Len(vaults[sender].ciphertexts) > 0

\* if (vaults[msg.sender].initialized)
vaultExists(sender) == vaults[sender].initialized

\* a guard that asks whether the ledger holds any vault at all
vaultMissing_global(sender) == \A o \in Owners : ~vaults[o].initialized

\* a guard that lets every caller through
vaultMissing_never(sender) == FALSE

\* if (!vaults[msg.sender].initialized)
vaultMissing(sender) == ~vaults[sender].initialized

\* a creation that stores the key and forgets the flag
initVault_noFlag(vs, sender, validatedKey) ==
    [vs EXCEPT ![sender].encryptedKey = validatedKey]

\* vaults[msg.sender].encryptedKey = validatedKey;
\* vaults[msg.sender].initialized = true;
initVault(vs, sender, validatedKey) ==
    [vs EXCEPT ![sender].encryptedKey = validatedKey,
               ![sender].initialized = TRUE]

\* a rotation that validates and grants but never stores the new handle
replaceKey_keepsOld(vs, sender, validatedKey) == vs

\* a rotation that rewrites the whole record and so empties the list
replaceKey_resetsVault(vs, sender, validatedKey) ==
    [vs EXCEPT ![sender] = [encryptedKey |-> validatedKey,
                            initialized |-> TRUE, ciphertexts |-> <<>>]]

\* a rotation that writes the key slot of every vault
replaceKey_everyVault(vs, sender, validatedKey) ==
    [o \in Owners |-> [vs[o] EXCEPT !.encryptedKey = validatedKey]]

\* vaults[msg.sender].encryptedKey = validatedKey;
replaceKey(vs, sender, validatedKey) ==
    [vs EXCEPT ![sender].encryptedKey = validatedKey]

\* grants that go to every account instead of the sender
grantKey_toAll(grants, validatedKey, sender) ==
    grants \cup {<<validatedKey, id>> : id \in Identities}

\* grants that leave out the contract itself
grantKey_noThis(grants, validatedKey, sender) ==
    allow(grants, validatedKey, sender)

\* grants that replace the grant list instead of extending it
grantKey_replacing(grants, validatedKey, sender) ==
    {<<validatedKey, This>>, <<validatedKey, sender>>}

\* grants that take the sender's and the contract's earlier grants away
grantKey_revoking(grants, validatedKey, sender) ==
    {g \in grants : g[2] \notin {This, sender}}
        \cup {<<validatedKey, This>>, <<validatedKey, sender>>}

\* FHE.allowThis(validatedKey); FHE.allow(validatedKey, msg.sender);
grantKey(grants, validatedKey, sender) ==
    allow(allowThis(grants, validatedKey), validatedKey, sender)

\* a push that puts the new entry first
pushSecret_front(list, ciphertext) == <<ciphertext>> \o list

\* a push that overwrites the last entry once the list is not empty
pushSecret_overwrite(list, ciphertext) ==
    IF list = <<>> THEN <<ciphertext>>
    ELSE [list EXCEPT ![Len(list)] = ciphertext]

\* a push that skips a string the list already holds
pushSecret_unique(list, ciphertext) ==
    IF \E i \in 1..Len(list) : list[i] = ciphertext
    THEN list
    ELSE Append(list, ciphertext)

\* vaults[msg.sender].ciphertexts.push(ciphertext);
pushSecret(list, ciphertext) == Append(list, ciphertext)

\* a store that writes the slot of every initialized vault
storeInto_all(vs, sender, list) ==
    [o \in Owners |-> IF vs[o].initialized
                      THEN [vs[o] EXCEPT !.ciphertexts = list]
                      ELSE vs[o]]

\* the storage slot written by storeSecret: vaults[msg.sender].ciphertexts
storeInto(vs, sender, list) == [vs EXCEPT ![sender].ciphertexts = list]

createVault(sender, encryptedKey, inputProof) ==
    IF vaultExists(sender)
    THEN Revert(Call("createVault", sender, encryptedKey, inputProof, <<>>,
                     "VaultAlreadyExists"))
    ELSE IF ~InputVerified(encryptedKey, inputProof, sender)
    THEN Revert(Call("createVault", sender, encryptedKey, inputProof, <<>>,
                     "InvalidInput"))
    ELSE LET validatedKey == fromExternal(encryptedKey, inputProof)
         IN  /\ vaults' = initVault(vaults, sender, validatedKey)
             /\ acl' = grantKey(acl, validatedKey, sender)
             /\ events' = Append(events, Event("VaultCreated", sender, 0))
             /\ lastCall' = Call("createVault", sender, encryptedKey,
                                 inputProof, <<>>, "ok")

rotateVaultKey(sender, encryptedKey, inputProof) ==
    IF vaultMissing(sender)
    THEN Revert(Call("rotateVaultKey", sender, encryptedKey, inputProof, <<>>,
                     "VaultMissing"))
    ELSE IF ~InputVerified(encryptedKey, inputProof, sender)
    THEN Revert(Call("rotateVaultKey", sender, encryptedKey, inputProof, <<>>,
                     "InvalidInput"))
    ELSE LET validatedKey == fromExternal(encryptedKey, inputProof)
         IN  /\ vaults' = replaceKey(vaults, sender, validatedKey)
             /\ acl' = grantKey(acl, validatedKey, sender)
             /\ events' = Append(events, Event("VaultKeyRotated", sender, 0))
             /\ lastCall' = Call("rotateVaultKey", sender, encryptedKey,
                                 inputProof, <<>>, "ok")

\* an index that counts the entries instead of naming the last one
indexOfLast_length(list) == Len(list)

\* vault.ciphertexts.length - 1, read after the push
indexOfLast(list) == Len(list) - 1

storeSecret(sender, ciphertext) ==
    IF vaultMissing(sender)
    THEN Revert(Call("storeSecret", sender, ZeroHandle, NoProof, ciphertext,
                     "VaultMissing"))
    ELSE LET pushed == pushSecret(vaults[sender].ciphertexts, ciphertext)
         IN  /\ vaults' = storeInto(vaults, sender, pushed)
             /\ events' = Append(events,
                                 Event("SecretStored", sender,
                                       indexOfLast(pushed)))
             /\ lastCall' = Call("storeSecret", sender, ZeroHandle, NoProof,
                                 ciphertext, "ok")
             /\ UNCHANGED acl

\* The same three functions as a function of the storage and the grants:
\* the storage, the grants and the outcome a call leaves behind.
Outcome(vs, grants, status) ==
    [vaults |-> vs, acl |-> grants, status |-> status]

execCall(vs, grants, c) ==
    IF c.op = "createVault"
    THEN IF vs[c.sender].initialized
         THEN Outcome(vs, grants, "VaultAlreadyExists")
         ELSE IF ~InputVerified(c.handle, c.inputProof, c.sender)
         THEN Outcome(vs, grants, "InvalidInput")
         ELSE LET validatedKey == fromExternal(c.handle, c.inputProof)
              IN  Outcome(initVault(vs, c.sender, validatedKey),
                          grantKey(grants, validatedKey, c.sender), "ok")
    ELSE IF c.op = "rotateVaultKey"
    THEN IF ~vs[c.sender].initialized
         THEN Outcome(vs, grants, "VaultMissing")
         ELSE IF ~InputVerified(c.handle, c.inputProof, c.sender)
         THEN Outcome(vs, grants, "InvalidInput")
         ELSE LET validatedKey == fromExternal(c.handle, c.inputProof)
              IN  Outcome(replaceKey(vs, c.sender, validatedKey),
                          grantKey(grants, validatedKey, c.sender), "ok")
    ELSE IF ~vs[c.sender].initialized
         THEN Outcome(vs, grants, "VaultMissing")
         ELSE Outcome(storeInto(vs, c.sender,
                          pushSecret(vs[c.sender].ciphertexts, c.ciphertext)),
                      grants, "ok")

(***************************************************************************)
(* View functions.                                                         *)
(***************************************************************************)
hasVault(owner) == vaults[owner].initialized

getVaultKey(owner) == vaults[owner].encryptedKey

getSecretCount(owner) == Len(vaults[owner].ciphertexts)

\* a bounds check that lets index = length through to the array access, which
\* then fails with the compiler's own out-of-bounds panic
getSecret_offByOne(owner, index) ==
    IF index > Len(vaults[owner].ciphertexts)
    THEN [ok |-> FALSE, value |-> "SecretIndexOutOfBounds"]
    ELSE IF index + 1 \in DOMAIN vaults[owner].ciphertexts
    THEN [ok |-> TRUE, value |-> vaults[owner].ciphertexts[index + 1]]
    ELSE [ok |-> FALSE, value |-> "Panic"]

\* index is a uint256 and counts from 0
getSecret(owner, index) ==
    IF index >= Len(vaults[owner].ciphertexts)
    THEN [ok |-> FALSE, value |-> "SecretIndexOutOfBounds"]
    ELSE [ok |-> TRUE, value |-> vaults[owner].ciphertexts[index + 1]]

(***************************************************************************)
(* Client cipher (frontend/src/components/VaultApp.tsx).  A JavaScript      *)
(* string is a sequence of characters, a Uint8Array a sequence of numbers   *)
(* in 0..255.                                                              *)
(***************************************************************************)
\* an unpaired surrogate code unit, and the replacement character U+FFFD
LoneSurrogate == "U+D800"
Replacement == "U+FFFD"

\* the printable ASCII characters the model uses, with their code
AsciiChars ==
    <<"+", "/", "0", "1", "2", "3", "4", "5", "6", "7", "8", "9", ":", "=",
      "A", "B", "C", "D", "E", "F", "G", "H", "I", "J", "K", "L", "M", "N",
      "O", "P", "Q", "R", "S", "T", "U", "V", "W", "X", "Y", "Z",
      "a", "b", "c", "d", "e", "f", "g", "h", "i", "j", "k", "l", "m", "n",
      "o", "p", "q", "r", "s", "t", "u", "v", "w", "x", "y", "z", " ">>

AsciiCodes ==
    <<43, 47, 48, 49, 50, 51, 52, 53, 54, 55, 56, 57, 58, 61,
      65, 66, 67, 68, 69, 70, 71, 72, 73, 74, 75, 76, 77, 78,
      79, 80, 81, 82, 83, 84, 85, 86, 87, 88, 89, 90,
      97, 98, 99, 100, 101, 102, 103, 104, 105, 106, 107, 108, 109, 110,
      111, 112, 113, 114, 115, 116, 117, 118, 119, 120, 121, 122, 32>>

IsAscii(c) == \E i \in 1..Len(AsciiChars) : AsciiChars[i] = c

CodeOf(c) == AsciiCodes[CHOOSE i \in 1..Len(AsciiChars) : AsciiChars[i] = c]

HasCode(n) == \E i \in 1..Len(AsciiCodes) : AsciiCodes[i] = n

CharOf(n) == AsciiChars[CHOOSE i \in 1..Len(AsciiCodes) : AsciiCodes[i] = n]

\* String.prototype.toLowerCase on the characters of the model
LowerChar(c) ==
    IF IsAscii(c) /\ CodeOf(c) >= 65 /\ CodeOf(c) <= 90
    THEN CharOf(CodeOf(c) + 32)
    ELSE c

toLowerCase(str) == [i \in 1..Len(str) |-> LowerChar(str[i])]

\* TextEncoder.encode: UTF-8, an unpaired surrogate is encoded as U+FFFD
Utf8Char(c) ==
    IF IsAscii(c) THEN <<CodeOf(c)>>
    ELSE IF c = "U+00E9" THEN <<195, 169>>
    ELSE <<239, 191, 189>>

RECURSIVE textEncode(_)
textEncode(str) ==
    IF str = <<>> THEN <<>>
    ELSE Utf8Char(Head(str)) \o textEncode(Tail(str))

\* TextDecoder.decode (not fatal): a byte that starts no sequence the model
\* knows decodes to U+FFFD
RECURSIVE textDecode(_)
textDecode(bytes) ==
    IF bytes = <<>> THEN <<>>
    ELSE IF bytes[1] < 128 /\ HasCode(bytes[1])
    THEN <<CharOf(bytes[1])>> \o textDecode(Tail(bytes))
    ELSE IF Len(bytes) >= 2 /\ bytes[1] = 195 /\ bytes[2] = 169
    THEN <<"U+00E9">> \o textDecode(SubSeq(bytes, 3, Len(bytes)))
    ELSE IF Len(bytes) >= 3 /\ bytes[1] = 239 /\ bytes[2] = 191
                            /\ bytes[3] = 189
    THEN <<Replacement>> \o textDecode(SubSeq(bytes, 4, Len(bytes)))
    ELSE <<Replacement>> \o textDecode(Tail(bytes))

\* the base64 alphabet of btoa and atob
Base64Alphabet ==
    <<"A", "B", "C", "D", "E", "F", "G", "H", "I", "J", "K", "L", "M", "N",
      "O", "P", "Q", "R", "S", "T", "U", "V", "W", "X", "Y", "Z",
      "a", "b", "c", "d", "e", "f", "g", "h", "i", "j", "k", "l", "m", "n",
      "o", "p", "q", "r", "s", "t", "u", "v", "w", "x", "y", "z",
      "0", "1", "2", "3", "4", "5", "6", "7", "8", "9", "+", "/">>

Base64Digit(n) == Base64Alphabet[n + 1]

IsBase64Char(c) == \E i \in 1..64 : Base64Alphabet[i] = c

Base64Value(c) == (CHOOSE i \in 1..64 : Base64Alphabet[i] = c) - 1

\* bytesToBase64: btoa of the binary string of the bytes
RECURSIVE bytesToBase64(_)
bytesToBase64(bytes) ==
    IF bytes = <<>> THEN <<>>
    ELSE IF Len(bytes) = 1
    THEN << Base64Digit(bytes[1] \div 4),
            Base64Digit((bytes[1] % 4) * 16), "=", "=" >>
    ELSE IF Len(bytes) = 2
    THEN << Base64Digit(bytes[1] \div 4),
            Base64Digit((bytes[1] % 4) * 16 + bytes[2] \div 16),
            Base64Digit((bytes[2] % 16) * 4), "=" >>
    ELSE << Base64Digit(bytes[1] \div 4),
            Base64Digit((bytes[1] % 4) * 16 + bytes[2] \div 16),
            Base64Digit((bytes[2] % 16) * 4 + bytes[3] \div 64),
            Base64Digit(bytes[3] % 64) >>
         \o bytesToBase64(SubSeq(bytes, 4, Len(bytes)))

\* atob drops up to two "=" at the end of a string whose length is a
\* multiple of 4
StripPadding(str) ==
    IF Len(str) % 4 = 0 /\ Len(str) > 0 /\ str[Len(str)] = "="
    THEN IF str[Len(str) - 1] = "="
         THEN SubSeq(str, 1, Len(str) - 2)
         ELSE SubSeq(str, 1, Len(str) - 1)
    ELSE str

\* the bytes of a run of base64 digits; the bits left over are dropped
RECURSIVE Base64Bytes(_)
Base64Bytes(digits) ==
    IF Len(digits) <= 1 THEN <<>>
    ELSE IF Len(digits) = 2
    THEN << Base64Value(digits[1]) * 4 + Base64Value(digits[2]) \div 16 >>
    ELSE IF Len(digits) = 3
    THEN << Base64Value(digits[1]) * 4 + Base64Value(digits[2]) \div 16,
            (Base64Value(digits[2]) % 16) * 16
                + Base64Value(digits[3]) \div 4 >>
    ELSE << Base64Value(digits[1]) * 4 + Base64Value(digits[2]) \div 16,
            (Base64Value(digits[2]) % 16) * 16
                + Base64Value(digits[3]) \div 4,
            (Base64Value(digits[3]) % 4) * 64 + Base64Value(digits[4]) >>
         \o Base64Bytes(SubSeq(digits, 5, Len(digits)))

\* a decoder that takes the padding for a character outside the alphabet
base64ToBytes_noPadding(str) ==
    IF Len(str) % 4 = 1 \/ \E i \in 1..Len(str) : ~IsBase64Char(str[i])
    THEN [ok |-> FALSE, bytes |-> <<>>]
    ELSE [ok |-> TRUE, bytes |-> Base64Bytes(str)]

\* base64ToBytes: atob throws on a character outside the alphabet and on a
\* length that leaves a single digit over
base64ToBytes(str) ==
    LET digits == StripPadding(str)
    IN  IF Len(digits) % 4 = 1
           \/ \E i \in 1..Len(digits) : ~IsBase64Char(digits[i])
        THEN [ok |-> FALSE, bytes |-> <<>>]
        ELSE [ok |-> TRUE, bytes |-> Base64Bytes(digits)]

RECURSIVE SumBytes(_)
SumBytes(bytes) ==
    IF bytes = <<>> THEN 0 ELSE Head(bytes) + SumBytes(Tail(bytes))

RECURSIVE WeightedSum(_)
WeightedSum(bytes) ==
    IF bytes = <<>> THEN 0
    ELSE Len(bytes) * Head(bytes) + WeightedSum(Tail(bytes))

\* crypto.subtle.digest('SHA-256', bytes), cut down to two bytes
sha256(bytes) == << SumBytes(bytes) % 256, WeightedSum(bytes) % 256 >>

\* deriveKey: the digest of the lower-cased address is the AES key
deriveKey(address) == sha256(textEncode(toLowerCase(address)))

\* AES-GCM with a one-byte tag: a key stream added to the data, followed by
\* a tag over the key, the nonce and the encrypted data
KeyStream(key, iv, i) == (key[1] + SumBytes(iv) + i) % 256

GcmTag(key, iv, body) ==
    (key[1] + 3 * key[2] + SumBytes(iv) + WeightedSum(body) + 1) % 256

aesGcmEncrypt(key, iv, data) ==
    LET body == [i \in 1..Len(data) |->
                    (data[i] + KeyStream(key, iv, i)) % 256]
    IN  Append(body, GcmTag(key, iv, body))

\* crypto.subtle.decrypt throws when the tag does not verify
aesGcmDecrypt(key, iv, data) ==
    IF Len(data) < 1 THEN [ok |-> FALSE, bytes |-> <<>>]
    ELSE LET body == SubSeq(data, 1, Len(data) - 1)
         IN  IF data[Len(data)] # GcmTag(key, iv, body)
             THEN [ok |-> FALSE, bytes |-> <<>>]
             ELSE [ok |-> TRUE,
                   bytes |-> [i \in 1..Len(body) |->
                       (body[i] + 256 - KeyStream(key, iv, i)) % 256]]

\* an envelope that puts the payload before the nonce
encryptSecret_swapped(address, plaintext, iv) ==
    LET key == sha256(textEncode(toLowerCase(address)))
        encrypted == aesGcmEncrypt(key, iv, textEncode(plaintext))
    IN  <<"d", "v", "1", ":">> \o bytesToBase64(encrypted) \o <<":">>
            \o bytesToBase64(iv)

\* `dv1:${bytesToBase64(iv)}:${payload}`; iv is the value drawn by
\* crypto.getRandomValues
encryptSecret(address, plaintext, iv) ==
    LET key == deriveKey(address)
        encrypted == aesGcmEncrypt(key, iv, textEncode(plaintext))
    IN  <<"d", "v", "1", ":">> \o bytesToBase64(iv) \o <<":">>
            \o bytesToBase64(encrypted)

\* String.prototype.split(':')
RECURSIVE split(_)
split(str) ==
    IF \A i \in 1..Len(str) : str[i] # ":" THEN <<str>>
    ELSE LET c == CHOOSE i \in 1..Len(str) :
                     str[i] = ":" /\ \A j \in 1..(i - 1) : str[j] # ":"
         IN  <<SubSeq(str, 1, c - 1)>> \o split(SubSeq(str, c + 1, Len(str)))

\* a destructuring that reads a missing field as the first one
Field_orFirst(fields, n) == IF n <= Len(fields) THEN fields[n] ELSE fields[1]

\* const [prefix, ivValue, dataValue] = payload.split(':'): a missing field
\* is undefined, which like the empty string is falsy
Field(fields, n) == IF n <= Len(fields) THEN fields[n] ELSE <<>>

Threw(error) == [ok |-> FALSE, value |-> error]

decryptSecret(address, payload) ==
    LET fields == split(payload)
        prefix == Field(fields, 1)
        ivValue == Field(fields, 2)
        dataValue == Field(fields, 3)
    IN  IF prefix # <<"d", "v", "1">> \/ ivValue = <<>> \/ dataValue = <<>>
        THEN Threw("Unsupported ciphertext format")
        ELSE LET key == deriveKey(address)
                 iv == base64ToBytes(ivValue)
                 data == base64ToBytes(dataValue)
             IN  IF ~iv.ok \/ ~data.ok THEN Threw("InvalidCharacterError")
                 ELSE LET decrypted ==
                              aesGcmDecrypt(key, iv.bytes, data.bytes)
                      IN  IF ~decrypted.ok THEN Threw("OperationError")
                          ELSE [ok |-> TRUE,
                                value |-> textDecode(decrypted.bytes)]

(***************************************************************************)
(* Specification.                                                          *)
(***************************************************************************)
\* the history keeps the transactions that committed
Committed ==
    txs' = IF lastCall'.status = "ok" THEN Append(txs, lastCall') ELSE txs

SendCreateVault ==
    \E s \in Owners, in \in ExternalInputs :
        /\ Len(txs) < MaxTx
        /\ createVault(s, in.handle, in.inputProof)
        /\ Committed
        /\ UNCHANGED clientVars

SendRotateVaultKey ==
    \E s \in Owners, in \in ExternalInputs :
        /\ Len(txs) < MaxTx
        /\ rotateVaultKey(s, in.handle, in.inputProof)
        /\ Committed
        /\ UNCHANGED clientVars

SendStoreSecret ==
    \E s \in Owners, ct \in Strings :
        /\ Len(txs) < MaxTx
        /\ storeSecret(s, ct)
        /\ Committed
        /\ UNCHANGED clientVars

Next == SendCreateVault \/ SendRotateVaultKey \/ SendStoreSecret

Spec == Init /\ [][Next]_vars

(***************************************************************************)
(* The client cipher on its own: one string is encrypted for an address,    *)
(* then decrypted with an address.                                          *)
(***************************************************************************)
\* the address string of a vault key, as ethers.getAddress returns it
AddressOf(k) ==
    IF k = "K1" THEN <<"0", "x", "A", "b">> ELSE <<"0", "x", "C", "d">>

\* the addresses of the keys, and the first one written in lower case
Addresses == { AddressOf(k) : k \in Keys } \cup { <<"0", "x", "a", "b">> }

\* strings a user may type: empty, plain, with a colon, with a character of
\* two UTF-8 bytes, with U+FFFD, and two with an unpaired surrogate
Plaintexts ==
    { <<>>, <<"h", "i">>, <<"a", ":", "b">>, <<"U+00E9", "x">>,
      <<Replacement>>, <<LoneSurrogate>>, <<"a", LoneSurrogate, "b">> }

\* values of crypto.getRandomValues(new Uint8Array(...))
Ivs == { <<0, 0, 0>>, <<255, 1, 2>> }

\* a string is well formed when it has no unpaired surrogate
WellFormed(str) == \A i \in 1..Len(str) : str[i] # LoneSurrogate

\* String.prototype.toWellFormed: unpaired surrogates become U+FFFD
toWellFormed(str) ==
    [i \in 1..Len(str) |->
        IF str[i] = LoneSurrogate THEN Replacement ELSE str[i]]

Seal ==
    \E a \in Addresses, p \in Plaintexts, iv \in Ivs :
        /\ cipher.phase = "idle"
        /\ cipher' = [ phase |-> "sealed", address |-> a, plaintext |-> p,
                       iv |-> iv, payload |-> encryptSecret(a, p, iv),
                       opener |-> <<>>,
                       result |-> [ok |-> FALSE, value |-> "none"] ]
        /\ UNCHANGED <<ledgerVars, client, poolVars, reading, ui>>

Open ==
    \E b \in Addresses :
        /\ cipher.phase = "sealed"
        /\ cipher' = [cipher EXCEPT !.phase = "opened", !.opener = b,
                           !.result = decryptSecret(b, cipher.payload)]
        /\ UNCHANGED <<ledgerVars, client, poolVars, reading, ui>>

NextCipher == Seal \/ Open

SpecCipher == Init /\ [][NextCipher]_vars

(***************************************************************************)
(* History operators used by the properties.                               *)
(***************************************************************************)
\* owner o has a committed createVault among the first n committed calls
CreatedWithin(o, n) ==
    \E i \in 1..n : txs[i].op = "createVault" /\ txs[i].sender = o

EverCreated(o) == CreatedWithin(o, Len(txs))

\* the ciphertexts of the committed storeSecret calls of o, oldest first
StoredBy(o) ==
    LET IsStore(t) == t.op = "storeSecret" /\ t.sender = o
        sel == SelectSeq(txs, IsStore)
    IN  [i \in 1..Len(sel) |-> sel[i].ciphertext]

IsPrefix(s, t) ==
    /\ Len(s) <= Len(t)
    /\ \A i \in 1..Len(s) : s[i] = t[i]

Mutators == {"createVault", "rotateVaultKey", "storeSecret"}

\* indices a reader may ask for, past the longest list a run can build
Indices == 0..(MaxTx + 1)

Failed(call) == call.op \in Mutators /\ call.status # "ok"

(***************************************************************************)
(* C1: for every owner O, hasVault(O) is true exactly in the states that    *)
(* follow a committed createVault by O: false before the first one, true    *)
(* after it whatever rotations, stores, failed calls and calls by other     *)
(* owners come later.                                                       *)
(***************************************************************************)
C1_HasVaultIffCreated ==
    \A o \in Owners : hasVault(o) <=> EverCreated(o)

\* A created a vault, then rotated and stored; B, who has none, just failed
C1_Witness ==
    /\ hasVault("A") /\ ~hasVault("B")
    /\ \E i, j \in 1..Len(txs) :
          /\ txs[i].op = "rotateVaultKey" /\ txs[i].sender = "A"
          /\ txs[j].op = "storeSecret" /\ txs[j].sender = "A"
    /\ lastCall.sender = "B" /\ Failed(lastCall)

(***************************************************************************)
(* C2: once owner O has a committed createVault, every later createVault    *)
(* sent by O fails with VaultAlreadyExists, whatever input it carries.      *)
(***************************************************************************)
C2_SecondCreateFails ==
    [][ \A o \in Owners :
          ( /\ EverCreated(o)
            /\ lastCall'.op = "createVault"
            /\ lastCall'.sender = o )
          => lastCall'.status = "VaultAlreadyExists" ]_vars

\* after a create and a rotation, the owner sends a createVault with a valid
\* input for another key, and it is rejected
C2_Witness ==
    /\ lastCall.op = "createVault"
    /\ lastCall.status = "VaultAlreadyExists"
    /\ InputVerified(lastCall.handle, lastCall.inputProof, lastCall.sender)
    /\ lastCall.handle # getVaultKey(lastCall.sender)
    /\ \E i \in 1..Len(txs) :
          txs[i].op = "rotateVaultKey" /\ txs[i].sender = lastCall.sender

(***************************************************************************)
(* C3: for an owner O with no committed createVault, every rotateVaultKey   *)
(* and every storeSecret sent by O fails with VaultMissing, also when other *)
(* owners have vaults.                                                      *)
(***************************************************************************)
C3_NoVaultMeansVaultMissing ==
    [][ \A o \in Owners :
          ( /\ ~EverCreated(o)
            /\ lastCall'.op \in {"rotateVaultKey", "storeSecret"}
            /\ lastCall'.sender = o )
          => lastCall'.status = "VaultMissing" ]_vars

\* the other owner has a vault; the sender has none and its rotation, sent
\* with an input that would verify, is rejected
C3_Witness ==
    /\ lastCall.op = "rotateVaultKey"
    /\ lastCall.status = "VaultMissing"
    /\ InputVerified(lastCall.handle, lastCall.inputProof, lastCall.sender)
    /\ \E o \in Owners \ {lastCall.sender} : hasVault(o)

(***************************************************************************)
(* C4: for every owner O, after N committed storeSecret calls by O,         *)
(* getSecretCount(O) = N and getSecret(O, i) returns the ciphertext of the  *)
(* i-th of them, for every i in [0, N).                                     *)
(***************************************************************************)
C4_SecretsAreTheStoredOnesInOrder ==
    \A o \in Owners :
        LET sub == StoredBy(o)
        IN  /\ getSecretCount(o) = Len(sub)
            /\ \A i \in 0..(Len(sub) - 1) :
                  getSecret(o, i) = [ok |-> TRUE, value |-> sub[i + 1]]

\* two different ciphertexts stored by A, with a rotation between them
C4_Witness ==
    /\ getSecretCount("A") = 2
    /\ getSecret("A", 0).value # getSecret("A", 1).value
    /\ \E i, j, k \in 1..Len(txs) :
          /\ i < j /\ j < k
          /\ txs[i].op = "storeSecret" /\ txs[i].sender = "A"
          /\ txs[j].op = "rotateVaultKey" /\ txs[j].sender = "A"
          /\ txs[k].op = "storeSecret" /\ txs[k].sender = "A"

(***************************************************************************)
(* C5: in every state and for every owner O, no account other than O holds  *)
(* a grant on the handle stored as O's encryptedKey, O holds one as soon as *)
(* the vault exists, and no other account's user decryption of that handle  *)
(* succeeds.                                                                *)
(***************************************************************************)
C5_OnlyTheOwnerIsGranted ==
    \A o \in Owners :
        LET key == getVaultKey(o)
        IN  /\ Grantees(key) \cap Owners \subseteq {o}
            /\ hasVault(o) => Grantees(key) \cap Owners = {o}
            /\ \A id \in Owners \ {o} : ~userDecrypt(key, This, id).ok

\* both owners hold a vault, and one of them has just tried to submit an
\* input that was encrypted for the other
C5_Witness ==
    /\ hasVault("A") /\ hasVault("B")
    /\ lastCall.op \in {"createVault", "rotateVaultKey"}
    /\ lastCall.inputProof.user \in Owners \ {lastCall.sender}
    /\ lastCall.inputProof.contract = This
    /\ lastCall.inputProof.handle = lastCall.handle

(***************************************************************************)
(* C6: after every committed createVault or rotateVaultKey by O, the handle *)
(* now stored as O's encryptedKey is the validated one and both the ledger  *)
(* contract and O hold a grant on it.                                       *)
(***************************************************************************)
C6_LedgerAndOwnerAreGranted ==
    /\ \A o \in Owners :
          hasVault(o) => {This, o} \subseteq Grantees(getVaultKey(o))
    /\ ( lastCall.status = "ok"
         /\ lastCall.op \in {"createVault", "rotateVaultKey"} )
       => /\ getVaultKey(lastCall.sender) = lastCall.handle
          /\ isAllowed(lastCall.handle, This)
          /\ isAllowed(lastCall.handle, lastCall.sender)

\* a committed rotation to a handle that had no grant before
C6_Witness ==
    /\ lastCall.op = "rotateVaultKey" /\ lastCall.status = "ok"
    /\ Len(txs) >= 2
    /\ \A i \in 1..(Len(txs) - 1) : txs[i].handle # lastCall.handle

(***************************************************************************)
(* C7: a mutating call sent by A, committed or reverted, leaves the vault   *)
(* of every other owner B as it was: hasVault(B), getVaultKey(B),           *)
(* getSecretCount(B) and every getSecret(B, i) give the same result before  *)
(* and after.                                                               *)
(***************************************************************************)
C7_OtherVaultsUntouched ==
    [][ \A b \in Owners \ {lastCall'.sender} :
          /\ hasVault(b)' = hasVault(b)
          /\ getVaultKey(b)' = getVaultKey(b)
          /\ getSecretCount(b)' = getSecretCount(b)
          /\ \A i \in Indices : getSecret(b, i)' = getSecret(b, i) ]_vars

\* B holds a vault with a secret, and A's storeSecret has just committed
C7_Witness ==
    /\ lastCall.sender = "A" /\ lastCall.op = "storeSecret"
    /\ lastCall.status = "ok"
    /\ hasVault("B") /\ getSecretCount("B") >= 1
    /\ getSecret("B", 0).value # lastCall.ciphertext

(***************************************************************************)
(* C8: in every step and for every owner O, O's ciphertext list before the  *)
(* step is a prefix of the list after it: nothing is removed, reordered or  *)
(* rewritten, and an index keeps its string once it has one.                *)
(***************************************************************************)
C8_AppendOnly ==
    [][ \A o \in Owners :
          /\ IsPrefix(vaults[o].ciphertexts, vaults'[o].ciphertexts)
          /\ \A i \in Indices :
                getSecret(o, i).ok => getSecret(o, i)' = getSecret(o, i) ]_vars

\* a second, different string has just been stored behind the first one
C8_Witness ==
    /\ lastCall.op = "storeSecret" /\ lastCall.status = "ok"
    /\ getSecretCount(lastCall.sender) = 2
    /\ getSecret(lastCall.sender, 0).value # lastCall.ciphertext

(***************************************************************************)
(* C9: getSecret(O, i) fails with SecretIndexOutOfBounds for every          *)
(* i >= getSecretCount(O), i = 0 on an uninitialized or empty vault         *)
(* included, and succeeds for every i < getSecretCount(O).                  *)
(***************************************************************************)
C9_GetSecretBounds ==
    \A o \in Owners : \A i \in Indices :
        /\ i >= getSecretCount(o) =>
              getSecret(o, i) =
                  [ok |-> FALSE, value |-> "SecretIndexOutOfBounds"]
        /\ i < getSecretCount(o) => getSecret(o, i).ok

\* A holds exactly one secret (index 1 is out of range), B has no vault
\* (index 0 is out of range)
C9_Witness ==
    /\ getSecretCount("A") = 1
    /\ getSecret("A", 0).ok /\ ~getSecret("A", 1).ok
    /\ ~hasVault("B") /\ ~getSecret("B", 0).ok

(***************************************************************************)
(* C10: a mutating call that fails leaves the ledger as it was: the vault   *)
(* records (flags, key handles, ciphertext lists), the access grants and    *)
(* the event log are those of the state before the call.                    *)
(***************************************************************************)
C10_FailedCallChangesNothing ==
    [][ Failed(lastCall') =>
          /\ vaults' = vaults
          /\ acl' = acl
          /\ events' = events ]_vars

\* a createVault carrying a valid input for another key was rejected with
\* VaultAlreadyExists and the stored handle is still the first one
C10_Witness ==
    /\ lastCall.op = "createVault"
    /\ lastCall.status = "VaultAlreadyExists"
    /\ InputVerified(lastCall.handle, lastCall.inputProof, lastCall.sender)
    /\ Len(txs) >= 1
    /\ txs[1].op = "createVault" /\ txs[1].sender = lastCall.sender
    /\ getVaultKey(lastCall.sender) = txs[1].handle
    /\ lastCall.handle # txs[1].handle

(***************************************************************************)
(* C11: after a committed createVault or rotateVaultKey by O that submitted *)
(* the encryption of key K, the user decryption requested by O on the       *)
(* handle returned by getVaultKey(O) yields K; after several rotations it   *)
(* yields the key of O's most recent committed create or rotate.            *)
(***************************************************************************)
KeyCalls == {"createVault", "rotateVaultKey"}

\* positions in the history of the committed create/rotate calls of o
KeyTxs(o) ==
    { i \in 1..Len(txs) : txs[i].op \in KeyCalls /\ txs[i].sender = o }

\* the input of o's most recent committed create/rotate call
LastKeyInput(o) ==
    LET i == CHOOSE j \in KeyTxs(o) : \A m \in KeyTxs(o) : m <= j
    IN  [handle |-> txs[i].handle, inputProof |-> txs[i].inputProof]

C11_OwnerDecryptsLatestKey ==
    \A o \in Owners :
        KeyTxs(o) # {} =>
            \E k \in Keys :
                /\ createEncryptedInput(This, o, k) = LastKeyInput(o)
                /\ userDecrypt(getVaultKey(o), This, o) =
                      [ok |-> TRUE, value |-> k]

\* A created with K1, rotated to K2 and back to K1, and decrypts K1
C11_Witness ==
    /\ Cardinality(KeyTxs("A")) = 3
    /\ \E i, j \in KeyTxs("A") :
          i < j /\ txs[i].handle = createEncryptedInput(This, "A", "K2").handle
                /\ txs[j].handle = createEncryptedInput(This, "A", "K1").handle
    /\ userDecrypt(getVaultKey("A"), This, "A").value = "K1"

(***************************************************************************)
(* C12: a committed rotateVaultKey by O changes O's encryptedKey and adds   *)
(* grants on the new handle, and nothing else: O's initialized flag stays   *)
(* true and O's ciphertext list is the same before and after.               *)
(***************************************************************************)
C12_RotationTouchesOnlyTheKey ==
    [][ \A o \in Owners :
          ( /\ lastCall'.op = "rotateVaultKey"
            /\ lastCall'.status = "ok"
            /\ lastCall'.sender = o ) =>
              /\ hasVault(o) /\ hasVault(o)'
              /\ vaults'[o].ciphertexts = vaults[o].ciphertexts
              /\ getSecretCount(o)' = getSecretCount(o)
              /\ \A i \in Indices : getSecret(o, i)' = getSecret(o, i)
              /\ getVaultKey(o)' = lastCall'.handle
              /\ acl \subseteq acl'
              /\ acl' \ acl \subseteq
                    {<<lastCall'.handle, This>>, <<lastCall'.handle, o>>}
      ]_vars

\* the owner holds two secrets and has just rotated to another handle
C12_Witness ==
    /\ lastCall.op = "rotateVaultKey" /\ lastCall.status = "ok"
    /\ getSecretCount(lastCall.sender) = 2
    /\ \E i \in 1..(Len(txs) - 1) :
          /\ txs[i].op = "createVault" /\ txs[i].sender = lastCall.sender
          /\ txs[i].handle # lastCall.handle

ClientPlaintexts == { <<"h", "i">>, <<"a", ":", "b">> }

\* the nonce drawn for a stored secret
ClientIvs == { <<255, 1, 2>> }

\* the vault keys a client of o has held: the key of every committed
\* create or rotate of o (the UI keeps its key across a rotation by a task)
HeldKeys(o) == { ClearValue(txs[i].handle) : i \in KeyTxs(o) }

ClientCreateVault ==
    \E o \in Owners, k \in Keys :
        LET in == createEncryptedInput(This, o, k)
        IN  /\ Len(txs) < MaxTx
            /\ createVault(o, in.handle, in.inputProof)
            /\ Committed
            /\ UNCHANGED clientVars

ClientRotateKey ==
    \E o \in Owners, k \in Keys :
        LET in == createEncryptedInput(This, o, k)
        IN  /\ Len(txs) < MaxTx
            /\ rotateVaultKey(o, in.handle, in.inputProof)
            /\ Committed
            /\ UNCHANGED clientVars

ClientStoreSecret ==
    \E o \in Owners, p \in ClientPlaintexts, iv \in ClientIvs :
        \E k \in HeldKeys(o) :
            /\ Len(txs) < MaxTx
            /\ storeSecret(o, encryptSecret(AddressOf(k), p, iv))
            /\ Committed
            /\ client' = IF lastCall'.status = "ok"
                         THEN [client EXCEPT ![o] =
                                  Append(@, [plaintext |-> p, key |-> k])]
                         ELSE client
            /\ UNCHANGED <<cipher, poolVars, reading, ui>>

NextClient == ClientCreateVault \/ ClientRotateKey \/ ClientStoreSecret

SpecClient == Init /\ [][NextClient]_vars

\* the two-step reveal of the i-th secret of o: decrypt the stored key
\* handle as o, then decrypt the ciphertext with the recovered key
Reveal(o, i) ==
    LET r == userDecrypt(getVaultKey(o), This, o)
    IN  IF ~r.ok THEN Threw("NotAllowed")
        ELSE decryptSecret(AddressOf(r.value), getSecret(o, i).value)

(***************************************************************************)
(* C13 as stated: after any sequence of createVault, rotateVaultKey and     *)
(* storeSecret calls by O, every ciphertext the client encrypted with the   *)
(* vault key it held is revealed to its original plaintext by decrypting    *)
(* the handle of getVaultKey(O) and then the ciphertext.                    *)
(***************************************************************************)
C13_Original_RevealAfterAnySequence ==
    \A o \in Owners :
        /\ getSecretCount(o) = Len(client[o])
        /\ \A i \in 1..Len(client[o]) :
              /\ Reveal(o, i - 1).ok
              /\ Reveal(o, i - 1).value = client[o][i].plaintext

(***************************************************************************)
(* C13 as amended: a ciphertext encrypted with the key that the vault's     *)
(* current handle encrypts is revealed to its original plaintext; one that  *)
(* was encrypted with another key of the owner (a rotated-out one) is not:  *)
(* its decryption with the recovered key fails.                             *)
(***************************************************************************)
C13_RevealUnderCurrentKey ==
    \A o \in Owners :
        /\ getSecretCount(o) = Len(client[o])
        /\ \A i \in 1..Len(client[o]) :
              IF client[o][i].key = ClearValue(getVaultKey(o))
              THEN /\ Reveal(o, i - 1).ok
                   /\ Reveal(o, i - 1).value = client[o][i].plaintext
              ELSE ~Reveal(o, i - 1).ok

\* A stored one secret under K1, rotated to K2 and stored another: the
\* second is revealed, the first is not
C13_Witness ==
    /\ Len(client["A"]) = 2
    /\ client["A"][1].key = "K1" /\ client["A"][2].key = "K2"
    /\ ClearValue(getVaultKey("A")) = "K2"
    /\ ~Reveal("A", 0).ok
    /\ Reveal("A", 1).ok /\ Reveal("A", 1).value = client["A"][2].plaintext

(***************************************************************************)
(* Transactions submitted concurrently.  The host orders the submitted      *)
(* transactions in any way and executes them one at a time, each as one     *)
(* atomic call of the contract.                                             *)
(***************************************************************************)
\* the calls a pool is made of: creations with either key, a rotation and
\* two different strings for one owner, a creation and a string for the other
PoolCalls ==
    { Call("createVault", "A", createEncryptedInput(This, "A", k).handle,
           createEncryptedInput(This, "A", k).inputProof, <<>>, "pending")
        : k \in Keys }
    \cup
    { Call("createVault", "B", createEncryptedInput(This, "B", "K1").handle,
           createEncryptedInput(This, "B", "K1").inputProof, <<>>, "pending"),
      Call("rotateVaultKey", "A", createEncryptedInput(This, "A", "K2").handle,
           createEncryptedInput(This, "A", "K2").inputProof, <<>>, "pending"),
      Call("storeSecret", "B", ZeroHandle, NoProof, <<"x">>, "pending") }
    \cup
    { Call("storeSecret", "A", ZeroHandle, NoProof, ct, "pending")
        : ct \in { <<>>, <<"x">> } }

NoReceipt == [status |-> "pending", index |-> 0]

\* a transaction is sent while nothing of the pool has been executed
Submit ==
    \E c \in PoolCalls :
        /\ Len(pool) < MaxPool
        /\ \A i \in 1..Len(receipts) : receipts[i] = NoReceipt
        /\ pool' = Append(pool, c)
        /\ receipts' = Append(receipts, NoReceipt)
        /\ UNCHANGED <<ledgerVars, cipher, client, reading, ui>>

Executed == { i \in 1..Len(pool) : receipts[i] # NoReceipt }

\* the host executes one of the pending transactions
Execute ==
    \E i \in 1..Len(pool) :
        /\ receipts[i] = NoReceipt
        /\ \/ /\ pool[i].op = "createVault"
              /\ createVault(pool[i].sender, pool[i].handle,
                             pool[i].inputProof)
           \/ /\ pool[i].op = "rotateVaultKey"
              /\ rotateVaultKey(pool[i].sender, pool[i].handle,
                                pool[i].inputProof)
           \/ /\ pool[i].op = "storeSecret"
              /\ storeSecret(pool[i].sender, pool[i].ciphertext)
        /\ Committed
        /\ receipts' =
              [receipts EXCEPT ![i] =
                  [ status |-> lastCall'.status,
                    index |-> IF lastCall'.status = "ok"
                              THEN events'[Len(events')].index ELSE 0 ]]
        /\ UNCHANGED <<pool, cipher, client, reading, ui>>

NextPool == Submit \/ Execute

SpecPool == Init /\ [][NextPool]_vars

\* the executed calls of the pool with this operation and sender
ExecutedOf(op, o) ==
    { i \in Executed : pool[i].op = op /\ pool[i].sender = o }

(***************************************************************************)
(* C15: of the createVault calls that one owner, who had no vault, submits  *)
(* together, exactly one succeeds and the others fail with                  *)
(* VaultAlreadyExists; the storeSecret calls of one owner that succeed get  *)
(* distinct consecutive indices from 0, and each ciphertext is read back at *)
(* the index its call got: none is lost or overwritten.                     *)
(***************************************************************************)
C15_ConcurrentCallsSerialize ==
    \A o \in Owners :
        LET creates == ExecutedOf("createVault", o)
            stored == { i \in ExecutedOf("storeSecret", o) :
                           receipts[i].status = "ok" }
        IN  /\ creates # {} =>
                  \E w \in creates :
                      /\ receipts[w].status = "ok"
                      /\ \A i \in creates \ {w} :
                            receipts[i].status = "VaultAlreadyExists"
            /\ \A i, j \in stored :
                  i # j => receipts[i].index # receipts[j].index
            /\ { receipts[i].index : i \in stored }
                  = 0..(Cardinality(stored) - 1)
            /\ getSecretCount(o) = Cardinality(stored)
            /\ \A i \in stored :
                  getSecret(o, receipts[i].index) =
                      [ok |-> TRUE, value |-> pool[i].ciphertext]

\* A sent two createVault calls and two storeSecret calls of the same string
\* together; the second create of the pool was executed first and won, and
\* both stores succeeded
C15_Witness ==
    /\ Len(pool) = 4 /\ Executed = 1..4
    /\ \A i \in 1..4 : pool[i].sender = "A"
    /\ pool[1].op = "createVault" /\ pool[2].op = "createVault"
    /\ pool[1].handle # pool[2].handle
    /\ receipts[2].status = "ok"
    /\ receipts[1].status = "VaultAlreadyExists"
    /\ pool[3].op = "storeSecret" /\ pool[4] = pool[3]
    /\ receipts[3].status = "ok" /\ receipts[4].status = "ok"
    /\ receipts[4].index = 0 /\ receipts[3].index = 1

(***************************************************************************)
(* C16: for two different owners A and B, a mutating call of A and a        *)
(* mutating call of B commute: from the same state, in either order, each   *)
(* call has the same outcome and the vault records and the access grants    *)
(* at the end are the same.                                                 *)
(***************************************************************************)
\* every call owner b can send
CallsOf(b) ==
    { Call(op, b, in.handle, in.inputProof, <<>>, "sent")
        : op \in KeyCalls, in \in ExternalInputs }
    \cup { Call("storeSecret", b, ZeroHandle, NoProof, ct, "sent")
             : ct \in Strings }

\* the ledger as in Spec, over shorter runs
LedgerCreateVault ==
    \E s \in Owners, in \in ExternalInputs :
        /\ Len(txs) < MaxLedger
        /\ createVault(s, in.handle, in.inputProof)
        /\ Committed
        /\ UNCHANGED clientVars

LedgerRotateVaultKey ==
    \E s \in Owners, in \in ExternalInputs :
        /\ Len(txs) < MaxLedger
        /\ rotateVaultKey(s, in.handle, in.inputProof)
        /\ Committed
        /\ UNCHANGED clientVars

LedgerStoreSecret ==
    \E s \in Owners, ct \in Strings :
        /\ Len(txs) < MaxLedger
        /\ storeSecret(s, ct)
        /\ Committed
        /\ UNCHANGED clientVars

NextLedger == LedgerCreateVault \/ LedgerRotateVaultKey \/ LedgerStoreSecret

SpecLedger == Init /\ [][NextLedger]_vars

\* the step just taken is the call lastCall' of A; d is a call of B.
\* A then B is the step followed by d; B then A is d followed by the call
C16_CrossOwnerCallsCommute ==
    [][ /\ execCall(vaults, acl, lastCall') =
              Outcome(vaults', acl', lastCall'.status)
        /\ \A b \in Owners \ {lastCall'.sender} : \A d \in CallsOf(b) :
              LET dFirst == execCall(vaults, acl, d)
                  thenA == execCall(dFirst.vaults, dFirst.acl, lastCall')
                  thenB == execCall(vaults', acl', d)
              IN  /\ thenA.status = lastCall'.status
                  /\ dFirst.status = thenB.status
                  /\ thenA.vaults = thenB.vaults
                  /\ thenA.acl = thenB.acl ]_vars

\* A has just created its vault while B holds a vault with a secret, so that
\* a rotation and a store of B succeed on either side of A's call
C16_Witness ==
    /\ lastCall.sender = "A" /\ lastCall.op = "createVault"
    /\ lastCall.status = "ok"
    /\ hasVault("B") /\ getSecretCount("B") = 1
    /\ \E d \in CallsOf("B") :
          d.op = "rotateVaultKey" /\ execCall(vaults, acl, d).status = "ok"

(***************************************************************************)
(* Calls of the view functions, between the transactions of the ledger.     *)
(***************************************************************************)
\* a view call that leaves a record of itself in the event log
staticcall_logging(answer) ==
    /\ reading' = answer
    /\ events' = Append(events, Event("Read", answer.owner, answer.index))
    /\ UNCHANGED <<vaults, acl, lastCall, txs, cipher, client, poolVars, ui>>

\* external view: the call returns its answer and writes nothing
staticcall(answer) ==
    /\ reading' = answer
    /\ UNCHANGED <<ledgerVars, cipher, client, poolVars, ui>>

ReadIndices == 0..(MaxLedger + 1)

ReadHasVault ==
    \E o \in Owners : staticcall(Answer("hasVault", o, 0, TRUE, hasVault(o)))

ReadGetVaultKey ==
    \E o \in Owners :
        staticcall(Answer("getVaultKey", o, 0, TRUE, getVaultKey(o)))

ReadGetSecretCount ==
    \E o \in Owners :
        staticcall(Answer("getSecretCount", o, 0, TRUE, getSecretCount(o)))

ReadGetSecret ==
    \E o \in Owners, i \in ReadIndices :
        staticcall(Answer("getSecret", o, i,
                          getSecret(o, i).ok, getSecret(o, i).value))

NextRead ==
    \/ LedgerCreateVault \/ LedgerRotateVaultKey \/ LedgerStoreSecret
    \/ ReadHasVault \/ ReadGetVaultKey \/ ReadGetSecretCount \/ ReadGetSecret

SpecRead == Init /\ [][NextRead]_vars

(***************************************************************************)
(* C17: a call of hasVault, getVaultKey, getSecretCount or getSecret        *)
(* leaves the vault records, the access grants and the notifications as     *)
(* they were; its answer is the one the committed mutations so far          *)
(* determine; hasVault, getVaultKey and getSecretCount succeed for every    *)
(* owner in every state, and getSecret fails exactly when the index is out  *)
(* of range.                                                                *)
(***************************************************************************)
\* what the committed transactions say the answer is
Committed_hasVault(o) == EverCreated(o)

Committed_getVaultKey(o) ==
    IF KeyTxs(o) = {}
    THEN ZeroHandle
    ELSE fromExternal(LastKeyInput(o).handle, LastKeyInput(o).inputProof)

Committed_getSecret(o, i) ==
    IF i < Len(StoredBy(o))
    THEN [ok |-> TRUE, value |-> StoredBy(o)[i + 1]]
    ELSE [ok |-> FALSE, value |-> "SecretIndexOutOfBounds"]

ReflectsCommitted(r) ==
    /\ r.fn = "hasVault" => r.ok /\ r.value = Committed_hasVault(r.owner)
    /\ r.fn = "getVaultKey" =>
          r.ok /\ r.value = Committed_getVaultKey(r.owner)
    /\ r.fn = "getSecretCount" =>
          r.ok /\ r.value = Len(StoredBy(r.owner))
    /\ r.fn = "getSecret" =>
          /\ r.ok = Committed_getSecret(r.owner, r.index).ok
          /\ r.value = Committed_getSecret(r.owner, r.index).value
          /\ r.ok <=> r.index < Len(StoredBy(r.owner))

C17_ReadsObserveAndNeverMutate ==
    [][ reading' # reading =>
          /\ vaults' = vaults /\ acl' = acl /\ events' = events
          /\ ReflectsCommitted(reading') ]_vars

\* A holds one secret after three committed transactions, B never created a
\* vault; the last read asked for an index past A's list and failed
C17_Witness ==
    /\ reading.fn = "getSecret" /\ reading.owner = "A" /\ reading.index = 1
    /\ ~reading.ok
    /\ getSecretCount("A") = 1 /\ ~hasVault("B")
    /\ Len(events) = 3

(***************************************************************************)
(* C18: when the (encryptedKeyInput, proof) pair of a createVault or        *)
(* rotateVaultKey call is not one the access layer accepts, the call fails  *)
(* with the access layer's error and vault records, grants and              *)
(* notifications are unchanged; after a rejected createVault the caller's   *)
(* vault is still uninitialized and a createVault with a valid pair         *)
(* succeeds; after a rejected rotateVaultKey getVaultKey returns the key    *)
(* handle stored before.                                                    *)
(***************************************************************************)
\* the pairs made for this contract and the caller o
ValidPairs(o) == { createEncryptedInput(This, o, k) : k \in Keys }

PairOf(call) == [handle |-> call.handle, inputProof |-> call.inputProof]

C18_RejectedInputChangesNothing ==
    [][ \A o \in Owners :
          /\ ( /\ lastCall'.op = "createVault" /\ lastCall'.sender = o
               /\ ~hasVault(o) /\ PairOf(lastCall') \notin ValidPairs(o) )
             => /\ lastCall'.status = "InvalidInput"
                /\ vaults' = vaults /\ acl' = acl /\ events' = events
                /\ ~hasVault(o)'
          /\ ( /\ lastCall'.op = "rotateVaultKey" /\ lastCall'.sender = o
               /\ hasVault(o) /\ PairOf(lastCall') \notin ValidPairs(o) )
             => /\ lastCall'.status = "InvalidInput"
                /\ vaults' = vaults /\ acl' = acl /\ events' = events
                /\ getVaultKey(o)' = getVaultKey(o)
                /\ getVaultKey(o)' = Committed_getVaultKey(o)
          /\ ( /\ lastCall'.op = "createVault" /\ lastCall'.sender = o
               /\ ~hasVault(o) /\ PairOf(lastCall') \in ValidPairs(o) )
             => /\ lastCall'.status = "ok"
                /\ hasVault(o)'
                /\ getVaultKey(o)' = lastCall'.handle ]_vars

\* B has just had a rotation rejected, with an input made for A, and still
\* holds the key it rotated to before
C18_Witness ==
    /\ lastCall.op = "rotateVaultKey" /\ lastCall.sender = "B"
    /\ lastCall.status = "InvalidInput"
    /\ PairOf(lastCall) \in ValidPairs("A")
    /\ hasVault("B")
    /\ getVaultKey("B") = createEncryptedInput(This, "B", "K2").handle
    /\ \E i \in 1..Len(txs) :
          txs[i].op = "rotateVaultKey" /\ txs[i].sender = "B"

(***************************************************************************)
(* C19: every successful storeSecret by owner O emits SecretStored with O   *)
(* and an index equal to getSecretCount(O) just before the call; the        *)
(* indices emitted for O are 0, 1, 2, ... without gap or repeat, and        *)
(* getSecret(O, i) returns the ciphertext of the call that emitted index i. *)
(***************************************************************************)
\* the SecretStored notifications of o, oldest first
SecretStoredOf(o) ==
    LET IsStored(e) == e.name = "SecretStored" /\ e.owner = o
    IN  SelectSeq(events, IsStored)

C19_StoredIndexIsPreviousCount ==
    [][ \A o \in Owners :
          /\ ( /\ lastCall'.op = "storeSecret" /\ lastCall'.sender = o
               /\ lastCall'.status = "ok" )
             => events' =
                  Append(events, Event("SecretStored", o, getSecretCount(o)))
          /\ Len(SecretStoredOf(o))' = Len(StoredBy(o))'
          /\ \A j \in 1..Len(SecretStoredOf(o))' :
                /\ SecretStoredOf(o)[j]' = Event("SecretStored", o, j - 1)
                /\ getSecret(o, j - 1)' =
                      [ok |-> TRUE, value |-> StoredBy(o)[j]'] ]_vars

\* A has stored two different ciphertexts, the second one just now
C19_Witness ==
    /\ Len(SecretStoredOf("A")) = 2
    /\ lastCall.op = "storeSecret" /\ lastCall.status = "ok"
    /\ events[Len(events)] = Event("SecretStored", "A", 1)
    /\ getSecret("A", 0).value # getSecret("A", 1).value

(***************************************************************************)
(* C20: for every owner O without a committed createVault, in every         *)
(* reachable state getVaultKey(O) is the zero handle and getSecretCount(O)  *)
(* is 0: no sequence of calls puts a key handle or a ciphertext into an     *)
(* uninitialized vault.                                                     *)
(***************************************************************************)
C20_UninitializedVaultStaysEmpty ==
    \A o \in Owners :
        ~EverCreated(o) =>
            /\ getVaultKey(o) = ZeroHandle
            /\ getSecretCount(o) = 0
            /\ ~hasVault(o)
            /\ \A id \in Identities : ~isAllowed(getVaultKey(o), id)

\* A has created a vault, rotated its key and stored a secret; B, which
\* never created one, has just had a call refused
C20_Witness ==
    /\ ~EverCreated("B")
    /\ lastCall.sender = "B" /\ lastCall.status = "VaultMissing"
    /\ getVaultKey("A") = createEncryptedInput(This, "A", "K2").handle
    /\ getSecretCount("A") = 1
    /\ \E i \in 1..Len(txs) : txs[i].op = "rotateVaultKey"

(***************************************************************************)
(* C21: storeSecret by an owner with an initialized vault succeeds for      *)
(* every string, whatever its content or format: the empty string, a        *)
(* string without the dv1 envelope and a string equal to a stored entry     *)
(* are each appended as a new entry, and getSecret returns them verbatim.   *)
(***************************************************************************)
C21_AnyStringIsStoredVerbatim ==
    [][ \A o \in Owners :
          ( /\ lastCall'.op = "storeSecret" /\ lastCall'.sender = o
            /\ hasVault(o) )
          => /\ lastCall'.status = "ok"
             /\ getSecretCount(o)' = getSecretCount(o) + 1
             /\ \A i \in Indices :
                   i = getSecretCount(o) =>
                      getSecret(o, i)' =
                         [ok |-> TRUE, value |-> lastCall'.ciphertext] ]_vars

\* A holds the empty string, then "x", then "x" again
C21_Witness ==
    /\ getSecretCount("A") = 3
    /\ getSecret("A", 0).value = <<>>
    /\ getSecret("A", 1).value = <<"x">>
    /\ getSecret("A", 2).value = <<"x">>
    /\ lastCall.op = "storeSecret" /\ lastCall.status = "ok"

(***************************************************************************)
(* C22: rotateVaultKey grants access on the new handle only and revokes     *)
(* nothing: every grant that existed before the call exists after it, in    *)
(* particular the ledger's and the owner's grants on the rotated-out        *)
(* handle, so the owner can still decrypt the rotated-out key handle.       *)
(***************************************************************************)
\* every handle a transaction can carry
Handles == { in.handle : in \in ExternalInputs } \cup {ZeroHandle}

C22_RotationRevokesNothing ==
    [][ \A o \in Owners :
          ( /\ lastCall'.op = "rotateVaultKey" /\ lastCall'.sender = o
            /\ lastCall'.status = "ok" )
          => /\ acl \subseteq acl'
             /\ acl' \ acl \subseteq
                   {<<lastCall'.handle, This>>, <<lastCall'.handle, o>>}
             /\ \A h \in Handles :
                   h = getVaultKey(o) =>
                      /\ isAllowed(h, o)' /\ isAllowed(h, This)'
                      /\ userDecrypt(h, This, o)' =
                            [ok |-> TRUE, value |-> ClearValue(h)] ]_vars

\* A has just rotated from K1 to K2 and still decrypts the K1 handle, which
\* its vault no longer holds
C22_Witness ==
    /\ lastCall.op = "rotateVaultKey" /\ lastCall.sender = "A"
    /\ lastCall.status = "ok"
    /\ getVaultKey("A") = createEncryptedInput(This, "A", "K2").handle
    /\ userDecrypt(createEncryptedInput(This, "A", "K1").handle, This, "A")
          = [ok |-> TRUE, value |-> "K1"]

(***************************************************************************)
(* C23: the lifecycle precondition is checked before the proof: createVault *)
(* by an initialized owner fails with VaultAlreadyExists and rotateVaultKey *)
(* by an uninitialized owner fails with VaultMissing even when the          *)
(* (encryptedKeyInput, proof) pair is invalid; the access layer's error is  *)
(* reported only when the lifecycle precondition holds.                     *)
(***************************************************************************)
C23_LifecycleCheckedBeforeProof ==
    [][ \A o \in Owners :
          /\ ( /\ lastCall'.op = "createVault" /\ lastCall'.sender = o
               /\ hasVault(o) )
             => lastCall'.status = "VaultAlreadyExists"
          /\ ( /\ lastCall'.op = "rotateVaultKey" /\ lastCall'.sender = o
               /\ ~hasVault(o) )
             => lastCall'.status = "VaultMissing"
          /\ (lastCall'.sender = o /\ lastCall'.status = "InvalidInput")
             => /\ PairOf(lastCall') \notin ValidPairs(o)
                /\ lastCall'.op = "createVault" => ~hasVault(o)
                /\ lastCall'.op = "rotateVaultKey" => hasVault(o) ]_vars

\* A, which holds a vault, has sent createVault with an input made for
\* another contract and was told VaultAlreadyExists
C23_Witness ==
    /\ lastCall.op = "createVault" /\ lastCall.sender = "A"
    /\ PairOf(lastCall) = ForeignInput
    /\ lastCall.status = "VaultAlreadyExists"
    /\ hasVault("A")

(***************************************************************************)
(* C24: in every reachable state and for every owner O, hasVault(O) is true *)
(* exactly when getVaultKey(O) is not the zero handle, so the zero-handle   *)
(* test of task:decrypt-key and of the UI's decryptVaultKey agrees with     *)
(* hasVault.                                                                *)
(***************************************************************************)
\* encryptedKey === ethers.ZeroHash
reportsNotInitialized(o) == getVaultKey(o) = ZeroHandle

EventOf(op) ==
    IF op = "createVault" THEN "VaultCreated"
    ELSE IF op = "rotateVaultKey" THEN "VaultKeyRotated"
    ELSE "SecretStored"

\* positions of the VaultCreated notifications of o
CreatedAt(o) ==
    { i \in 1..Len(events) :
         events[i].name = "VaultCreated" /\ events[i].owner = o }

LogWellOrdered ==
    \A o \in Owners :
        /\ Cardinality(CreatedAt(o)) <= 1
        /\ \A j \in 1..Len(events) :
              ( /\ events[j].owner = o
                /\ events[j].name \in {"VaultKeyRotated", "SecretStored"} )
              => \E i \in CreatedAt(o) : i < j

C25_OneNotificationPerSuccess ==
    [][ /\ LogWellOrdered'
        /\ lastCall'.status = "ok" =>
              /\ Len(events') = Len(events) + 1
              /\ SubSeq(events', 1, Len(events)) = events
              /\ events'[Len(events')].name = EventOf(lastCall'.op)
              /\ events'[Len(events')].owner = lastCall'.sender
        /\ lastCall'.status # "ok" => events' = events ]_vars

\* the log holds a creation, a rotation and a store of A, and the last call,
\* a second createVault of A, failed and added nothing
C25_Witness ==
    /\ Len(events) = 3
    /\ events[1] = Event("VaultCreated", "A", 0)
    /\ events[2].name = "VaultKeyRotated" /\ events[3].name = "SecretStored"
    /\ lastCall.op = "createVault" /\ lastCall.sender = "A"
    /\ lastCall.status = "VaultAlreadyExists"

(***************************************************************************)
(* The client cipher opening strings read from the ledger, which any        *)
(* caller may have stored.                                                  *)
(***************************************************************************)
\* strings a vault may hold: empty, without envelope, with fields missing
\* or empty, with another version tag, and with three or more fields that
\* are or are not base64
StoredStrings ==
    { <<>>,
      <<"x">>,
      <<"d", "v", "1">>,
      <<"d", "v", "1", ":">>,
      <<"d", "v", "1", ":", ":">>,
      <<"d", "v", "1", ":", "Q", "Q">>,
      <<"d", "v", "1", ":", "Q", "Q", ":">>,
      <<"d", "v", "1", ":", ":", "Q", "Q">>,
      <<"d", "v", "2", ":", "Q", "Q", ":", "Q", "Q">>,
      <<"D", "V", "1", ":", "Q", "Q", ":", "Q", "Q">>,
      <<":", "d", "v", "1", ":", "Q", "Q", ":", "Q", "Q">>,
      <<"d", "v", "1", ":", "Q", "Q", ":", "Q", "Q">>,
      <<"d", "v", "1", ":", "!", ":", "!">>,
      <<"d", "v", "1", ":", "Q", "Q", ":", "Q", "Q", ":", "z", "z">>,
      <<"d", "v", "1", " ", ":", "Q", "Q", ":", "Q", "Q">> }

OpenStored ==
    \E b \in Addresses, s \in StoredStrings :
        /\ cipher.phase = "idle"
        /\ cipher' = [ phase |-> "opened", address |-> <<>>,
                       plaintext |-> <<>>, iv |-> <<>>, payload |-> s,
                       opener |-> b, result |-> decryptSecret(b, s) ]
        /\ UNCHANGED <<ledgerVars, client, poolVars, reading, ui>>

NextFormat == Seal \/ Open \/ OpenStored

SpecFormat == Init /\ [][NextFormat]_vars

(***************************************************************************)
(* C26: decryptSecret rejects a stored string with the error 'Unsupported   *)
(* ciphertext format' whenever its first colon-separated field is not       *)
(* 'dv1' or its nonce field or payload field is missing or empty, whatever  *)
(* the key address and the rest of the string, so before a key is derived   *)
(* or a decryption attempted; every string encryptSecret produces passes    *)
(* the check.                                                               *)
(***************************************************************************)
\* the string starts with dv1: followed by a non-empty field without colon,
\* a colon, and a character that is not a colon
EnvelopeComplete(str) ==
    /\ Len(str) >= 7
    /\ SubSeq(str, 1, 4) = <<"d", "v", "1", ":">>
    /\ str[5] # ":"
    /\ \E c \in 6..(Len(str) - 1) :
          /\ str[c] = ":"
          /\ \A j \in 5..(c - 1) : str[j] # ":"
          /\ str[c + 1] # ":"

FormatError == [ok |-> FALSE, value |-> "Unsupported ciphertext format"]

C26_BadEnvelopeIsFormatError ==
    /\ cipher.phase = "opened" =>
          ( ~EnvelopeComplete(cipher.payload) => cipher.result = FormatError )
    /\ cipher.phase \in {"sealed", "opened"} /\ cipher.address # <<>> =>
          /\ cipher.payload = encryptSecret(cipher.address, cipher.plaintext,
                                            cipher.iv)
          /\ EnvelopeComplete(cipher.payload)
          /\ cipher.phase = "opened" => cipher.result # FormatError

\* a string with the dv1 tag and a nonce but an empty payload field, whose
\* nonce would otherwise decode, has been rejected
C26_Witness ==
    /\ cipher.phase = "opened"
    /\ cipher.payload = <<"d", "v", "1", ":", "Q", "Q", ":">>
    /\ cipher.result = FormatError

(***************************************************************************)
(* The VaultApp component (frontend/src/components/VaultApp.tsx).  The     *)
(* record ui holds the state of the component and its asynchronous runs in  *)
(* flight.  A run keeps the values of the render it was started in: its     *)
(* address, and the syncVault made for that address.  A state setter takes  *)
(* effect at once; an effect whose dependencies changed runs in a later     *)
(* step, and the continuation of a run may come in between.  A click and a  *)
(* change of account come after the address effect of the last change has   *)
(* run.                                                                     *)
(***************************************************************************)
\* transactions the component sends in one run of the model
MaxUiTx == 3

\* runs of syncVault in flight together
MaxSyncs == 2

\* runs of decryptAll in flight together
MaxRuns == 2

\* secretInput.trim(), never empty: what the user types for the entry after
\* n stored ones
secretInput(n) == IF n = 0 THEN <<"h", "i">> ELSE <<"a", ":", "b">>

\* ethers.Wallet.createRandom().address, one draw for each account
generatedKey(address) == IF address = "A" THEN "K1" ELSE "K2"

\* crypto.getRandomValues(new Uint8Array(12)) in the component
UiIv == <<255, 1, 2>>

RemoveAt(seq, i) == SubSeq(seq, 1, i - 1) \o SubSeq(seq, i + 1, Len(seq))

\* setVaultKey(k): the decryptAll effect depends on vaultKey
setVaultKey(u, k) ==
    [u EXCEPT !.vaultKey = k, !.decryptEffect = @ \/ (k # u.vaultKey)]

\* setCiphertexts(list): list is a new array, so the dependency always changes
setCiphertexts(u, list) ==
    [u EXCEPT !.ciphertexts = list, !.decryptEffect = TRUE]

setDecryptedSecrets(u, results) == [u EXCEPT !.decryptedSecrets = results]

setHasVault(u, found) == [u EXCEPT !.hasVault = found]

\* getSecretCount(address), then getSecret(address, index) for every index
\* below it, lines 100-117
readSecrets(address) ==
    [j \in 1..getSecretCount(address) |-> getSecret(address, j - 1).value]

\* syncVault(), lines 79-92: returns at once without an address, else sets
\* isFetching and asks for hasVault(address); a read is answered from the
\* ledger as it is when the read is sent.  parent is the handler awaiting
\* the run
SyncRun(address, parent) ==
    [ address |-> address, pc |-> "hasVault",
      vaultExists |-> hasVault(address), entries |-> <<>>,
      parent |-> parent ]

startSync(u, address, parent) ==
    IF address = NoAccount
    THEN u
    ELSE [u EXCEPT !.syncs = Append(@, SyncRun(address, parent)),
                   !.isFetching = TRUE]

\* finally { setIsFetching(false) }, and the finally of the awaiting handler
finishSync(u, i) ==
    [u EXCEPT !.syncs = RemoveAt(@, i),
              !.isFetching = FALSE,
              !.isCreating = @ /\ u.syncs[i].parent # "createVault",
              !.isStoring = @ /\ u.syncs[i].parent # "storeSecret"]

\* lines 94-100: setHasVault(vaultExists); without a vault the list is
\* emptied, with one the secrets are asked for
writeHasVault(u, i) ==
    LET run == u.syncs[i]
        shown == setHasVault(u, run.vaultExists)
    IN  IF run.vaultExists
        THEN [shown EXCEPT !.syncs[i].pc = "secrets",
                           !.syncs[i].entries = readSecrets(run.address)]
        ELSE finishSync(setCiphertexts(shown, <<>>), i)

\* line 119: setCiphertexts(entries)
writeCiphertexts(u, i) == finishSync(setCiphertexts(u, u.syncs[i].entries), i)

\* lines 146-153: the preview of one entry
preview(vaultKey, payload) ==
    LET r == decryptSecret(vaultKey, payload)
    IN  IF r.ok THEN r.value
        ELSE <<"Unable to decrypt with the current key.">>

\* a run that writes whether or not its effect was cleaned up
mayWrite_always(run) == TRUE

\* if (isActive)
mayWrite(run) == run.isActive

\* lines 145-157: the end of decryptAll
finishDecryptAll(u, i) ==
    LET run == u.runs[i]
        results == [j \in 1..Len(run.ciphertexts) |->
                       preview(run.vaultKey, run.ciphertexts[j])]
        done == [u EXCEPT !.runs = RemoveAt(@, i)]
    IN  IF mayWrite(run) THEN setDecryptedSecrets(done, results) ELSE done

\* useAccount() returns another address
accountChanged(a) ==
    /\ a # ui.address /\ ~ui.addressEffect
    /\ ui' = [ui EXCEPT !.address = a, !.addressEffect = TRUE]
    /\ UNCHANGED <<ledgerVars, cipher, client, poolVars, reading>>

\* the wallet connects, changes its account or disconnects
SwitchAccount == \E a \in Owners \cup {NoAccount} : accountChanged(a)

\* the wallet connects and disconnects one account
ConnectOrDisconnect == \E a \in {"A", NoAccount} : accountChanged(a)

\* useEffect(..., [address, syncVault]), lines 128-135
AddressEffect ==
    /\ ui.addressEffect
    /\ ui.address # NoAccount => Len(ui.syncs) < MaxSyncs
    /\ ui' = startSync(
                setDecryptedSecrets(
                    setCiphertexts(
                        setVaultKey([ui EXCEPT !.addressEffect = FALSE], NoKey),
                        <<>>),
                    <<>>),
                ui.address, "none")
    /\ UNCHANGED <<ledgerVars, cipher, client, poolVars, reading>>

\* the Refresh button: onClick={syncVault}, disabled while isFetching
ClickRefresh ==
    /\ ui.address # NoAccount /\ ~ui.isFetching /\ ~ui.addressEffect
    /\ Len(ui.syncs) < MaxSyncs
    /\ ui' = startSync(ui, ui.address, "none")
    /\ UNCHANGED <<ledgerVars, cipher, client, poolVars, reading>>

\* the answer of hasVault(address) arrives
SyncHasVault ==
    \E i \in 1..Len(ui.syncs) :
        /\ ui.syncs[i].pc = "hasVault"
        /\ ui' = writeHasVault(ui, i)
        /\ UNCHANGED <<ledgerVars, cipher, client, poolVars, reading>>

\* the answers of getSecretCount and getSecret arrive
SyncSecrets ==
    \E i \in 1..Len(ui.syncs) :
        /\ ui.syncs[i].pc = "secrets"
        /\ ui' = writeCiphertexts(ui, i)
        /\ UNCHANGED <<ledgerVars, cipher, client, poolVars, reading>>

\* useEffect(..., [ciphertexts, vaultKey]), lines 137-164: the cleanup of
\* the earlier run of the effect, then the effect
DecryptEffect ==
    /\ ui.decryptEffect
    /\ ui.vaultKey # NoKey => Len(ui.runs) < MaxRuns
    /\ LET cleaned == [ui EXCEPT
                          !.decryptEffect = FALSE,
                          !.runs = [j \in 1..Len(ui.runs) |->
                                      [ui.runs[j] EXCEPT !.isActive = FALSE]]]
       IN  ui' = IF ui.vaultKey = NoKey
                 THEN setDecryptedSecrets(cleaned, <<>>)
                 ELSE [cleaned EXCEPT !.runs =
                          Append(@, [ vaultKey |-> ui.vaultKey,
                                      ciphertexts |-> ui.ciphertexts,
                                      isActive |-> TRUE ])]
    /\ UNCHANGED <<ledgerVars, cipher, client, poolVars, reading>>

DecryptAllDone ==
    \E i \in 1..Len(ui.runs) :
        /\ ui' = finishDecryptAll(ui, i)
        /\ UNCHANGED <<ledgerVars, cipher, client, poolVars, reading>>

\* createVault, lines 166-185: the button is disabled while isCreating or
\* hasVault; the transaction is sent by the account that clicked
ClickCreateVault ==
    LET k == generatedKey(ui.address) IN
        /\ ui.address # NoAccount /\ ~ui.isCreating /\ ~ui.hasVault
        /\ ~ui.addressEffect
        /\ Len(txs) < MaxUiTx
        /\ LET input == createEncryptedInput(This, ui.address, k)
           IN  createVault(ui.address, input.handle, input.inputProof)
        /\ Committed
        /\ ui' = IF lastCall'.status = "ok"
                 THEN [ui EXCEPT !.isCreating = TRUE,
                                 !.creating =
                                     [ address |-> ui.address,
                                       generatedKey |-> AddressOf(k) ]]
                 ELSE ui
        /\ UNCHANGED <<cipher, client, poolVars, reading>>

\* lines 185-189: tx.wait() returns; setVaultKey, then await syncVault()
CreateVaultDone ==
    /\ ui.creating # NoCreate
    /\ Len(ui.syncs) < MaxSyncs
    /\ ui' = startSync(
                setVaultKey([ui EXCEPT !.creating = NoCreate],
                            ui.creating.generatedKey),
                ui.creating.address, "createVault")
    /\ UNCHANGED <<ledgerVars, cipher, client, poolVars, reading>>

\* decryptVaultKey, lines 198-218: the button is disabled while isDecrypting
\* or without hasVault; a zero handle ends the handler
ClickDecryptVaultKey ==
    /\ ui.address # NoAccount /\ ~ui.isDecrypting /\ ui.hasVault
    /\ ~ui.addressEffect
    /\ ui' = IF getVaultKey(ui.address) = ZeroHandle
             THEN ui
             ELSE [ui EXCEPT !.isDecrypting = TRUE,
                             !.decrypting =
                                 [ address |-> ui.address,
                                   encryptedKey |-> getVaultKey(ui.address) ]]
    /\ UNCHANGED <<ledgerVars, cipher, client, poolVars, reading>>

\* lines 220-263: the relayer answers the request signed by the account
\* that clicked
DecryptVaultKeyDone ==
    /\ ui.decrypting # NoDecrypt
    /\ LET result == userDecrypt(ui.decrypting.encryptedKey, This,
                                 ui.decrypting.address)
           ended == [ui EXCEPT !.decrypting = NoDecrypt,
                               !.isDecrypting = FALSE]
       IN  ui' = IF result.ok
                 THEN setVaultKey(ended, AddressOf(result.value))
                 ELSE ended
    /\ UNCHANGED <<ledgerVars, cipher, client, poolVars, reading>>

\* storeSecret, lines 266-288: the button is disabled without a vault key and
\* while isStoring
ClickStoreSecret ==
    LET p == secretInput(getSecretCount(ui.address)) IN
        /\ ui.address # NoAccount /\ ui.vaultKey # NoKey /\ ~ui.isStoring
        /\ ~ui.addressEffect
        /\ Len(txs) < MaxUiTx
        /\ storeSecret(ui.address, encryptSecret(ui.vaultKey, p, UiIv))
        /\ Committed
        /\ ui' = IF lastCall'.status = "ok"
                 THEN [ui EXCEPT !.isStoring = TRUE, !.storing = ui.address]
                 ELSE ui
        /\ UNCHANGED <<cipher, client, poolVars, reading>>

\* lines 288-292: tx.wait() returns; await syncVault()
StoreSecretDone ==
    /\ ui.storing # NoAccount
    /\ Len(ui.syncs) < MaxSyncs
    /\ ui' = startSync([ui EXCEPT !.storing = NoAccount],
                       ui.storing, "storeSecret")
    /\ UNCHANGED <<ledgerVars, cipher, client, poolVars, reading>>

\* the component without its previews
NextUi ==
    \/ SwitchAccount \/ AddressEffect \/ ClickRefresh
    \/ SyncHasVault \/ SyncSecrets
    \/ ClickCreateVault \/ CreateVaultDone
    \/ ClickDecryptVaultKey \/ DecryptVaultKeyDone
    \/ ClickStoreSecret \/ StoreSecretDone

SpecUi == Init /\ [][NextUi]_vars

\* the component with its previews, used by one account
NextPreview ==
    \/ ConnectOrDisconnect \/ AddressEffect \/ ClickRefresh
    \/ SyncHasVault \/ SyncSecrets
    \/ DecryptEffect \/ DecryptAllDone
    \/ ClickCreateVault \/ CreateVaultDone
    \/ ClickDecryptVaultKey \/ DecryptVaultKeyDone
    \/ ClickStoreSecret \/ StoreSecretDone

SpecPreview == Init /\ [][NextPreview]_vars

(***************************************************************************)
(* C27: when the connected account changes, vaultKey is reset to null and   *)
(* stays null until a createVault or decryptVaultKey started under the new  *)
(* account completes: an action still in flight for the previous account    *)
(* never installs its key as vaultKey after the switch.                     *)
(***************************************************************************)
\* this step ends the createVault, or the decryptVaultKey, in flight
CreateVaultEnds == ui.creating # NoCreate /\ ui'.creating = NoCreate
DecryptVaultKeyEnds == ui.decrypting # NoDecrypt /\ ui'.decrypting = NoDecrypt

\* the claim as stated, for an account that is connected and the steps that
\* follow the reset of the effect
C27_Original_NoKeyFromPreviousAccount ==
    [][ /\ (ui.addressEffect /\ ~ui'.addressEffect) => ui'.vaultKey = NoKey
        /\ ( /\ ui.address # NoAccount /\ ~ui.addressEffect
             /\ ui'.vaultKey # NoKey /\ ui'.vaultKey # ui.vaultKey )
           => \/ CreateVaultEnds /\ ui.creating.address = ui.address
              \/ DecryptVaultKeyEnds /\ ui.decrypting.address = ui.address
      ]_vars

(***************************************************************************)
(* C28: after the connected account changes, hasVault and ciphertexts in    *)
(* the component state only ever hold values read from the ledger for the   *)
(* connected account: a syncVault run in flight for the previous account,   *)
(* or an older overlapping run, never overwrites them with the other        *)
(* account's or with older data.                                            *)
(***************************************************************************)
\* this step is the write of hasVault, or of ciphertexts, by sync run i
SyncWrites(i) ==
    \/ ui.syncs[i].pc = "hasVault" /\ ui' = writeHasVault(ui, i)
    \/ ui.syncs[i].pc = "secrets" /\ ui' = writeCiphertexts(ui, i)

\* hasVault and ciphertexts are values the ledger has given for the
\* connected account: a vault it has, and secrets of its list from the first
ShowsConnectedAccount ==
    (ui.address # NoAccount /\ ~ui.addressEffect)
    => /\ ui.hasVault => hasVault(ui.address)
       /\ IsPrefix(ui.ciphertexts, readSecrets(ui.address))

\* the claim as stated: the state shows the connected account, and a run
\* that writes for it does not replace what is shown by something older
C28_Original_ShowsOnlyConnectedAccount ==
    [][ /\ ShowsConnectedAccount'
        /\ \A i \in 1..Len(ui.syncs) :
              ( /\ SyncWrites(i) /\ ~ui.addressEffect
                /\ ui.syncs[i].address = ui.address
                /\ ShowsConnectedAccount )
              => /\ ui.hasVault => ui'.hasVault
                 /\ IsPrefix(ui.ciphertexts, ui'.ciphertexts) ]_vars

(***************************************************************************)
(* C29: a decryptAll run writes decryptedSecrets only if the (ciphertexts,  *)
(* vaultKey) pair it was started with is still the current one; a run       *)
(* superseded by a change of ciphertexts or vaultKey never writes; results  *)
(* are in the order of the ciphertexts they were computed from; once        *)
(* vaultKey is null decryptedSecrets is emptied and no stale run            *)
(* repopulates it.                                                          *)
(***************************************************************************)
\* this step ends decryptAll run i
DecryptAllEnds(i) ==
    /\ Len(ui'.runs) < Len(ui.runs)
    /\ ui'.runs = RemoveAt(ui.runs, i)

Previews(run) ==
    [j \in 1..Len(run.ciphertexts) |->
        preview(run.vaultKey, run.ciphertexts[j])]

\* the claim as stated: a run that changes decryptedSecrets was started with
\* the pair the component holds
C29_Original_WritesOnlyForCurrentPair ==
    [][ (Len(ui'.runs) < Len(ui.runs)
            /\ ui'.decryptedSecrets # ui.decryptedSecrets)
        => \E i \in 1..Len(ui.runs) :
              /\ DecryptAllEnds(i)
              /\ ui.runs[i].ciphertexts = ui.ciphertexts
              /\ ui.runs[i].vaultKey = ui.vaultKey
              /\ ui'.decryptedSecrets = Previews(ui.runs[i]) ]_vars

\* what holds: the run that writes is the one the effect started last and
\* has not cleaned up; its pair is the current one unless a change of the
\* pair still waits for the effect to run again; once the effect has run
\* with a null vaultKey, decryptedSecrets is empty
C29_WritesOnlyUntilCleanup ==
    [][ /\ (Len(ui'.runs) < Len(ui.runs)
               /\ ui'.decryptedSecrets # ui.decryptedSecrets)
           => /\ DecryptAllEnds(Len(ui.runs))
              /\ ui.runs[Len(ui.runs)].isActive
              /\ ~ui.decryptEffect =>
                    /\ ui.runs[Len(ui.runs)].ciphertexts = ui.ciphertexts
                    /\ ui.runs[Len(ui.runs)].vaultKey = ui.vaultKey
              /\ ui'.decryptedSecrets = Previews(ui.runs[Len(ui.runs)])
              /\ Len(ui'.decryptedSecrets) =
                    Len(ui.runs[Len(ui.runs)].ciphertexts)
        /\ (Len(ui'.runs) >= Len(ui.runs)
               /\ ui'.decryptedSecrets # ui.decryptedSecrets)
           => ui'.decryptedSecrets = <<>>
        /\ (ui'.vaultKey = NoKey /\ ~ui'.decryptEffect)
           => ui'.decryptedSecrets = <<>> ]_vars

\* two previews are shown in the order of the two ciphertexts, written by
\* the latest run while a superseded run is still in flight
C29_Witness ==
    /\ Len(ui.ciphertexts) = 2
    /\ ui.decryptedSecrets = << <<"h", "i">>, <<"a", ":", "b">> >>
    /\ ~ui.decryptEffect
    /\ Len(ui.runs) = 1 /\ ~ui.runs[1].isActive

====
